---------------------------- MODULE Spec2Model ----------------------------
(***************************************************************************)
(* The checkout backend of the storefront sample: cart validation,        *)
(* simulated inventory reservation, simulated payment with a latency and  *)
(* a failure rate per provider, order creation.                           *)
(*                                                                         *)
(* JavaScript values that can be a number or something else are records    *)
(* tagged with their type: [t |-> "number", v |-> 3], [t |-> "undefined"], *)
(* [t |-> "NaN"], [t |-> "null"].  Failure rates are in hundredths         *)
(* (0.05 is 5).  Math.random() is a point u / RandSteps of [0, 1), with u  *)
(* in 0 .. RandSteps - 1; every use of a draw computes on it what the code *)
(* computes.                                                               *)
(***************************************************************************)
EXTENDS Integers, Sequences, FiniteSets, TLC

VARIABLES
    env,                \* process.env: the nine PAYMENT_* overrides
    ORDERS,             \* the in-memory orders store
    pc,                 \* per request: "idle", "charging" (in sleep), "done"
    req,                \* per request: the body of the request
    requestedProvider,  \* per request: the handler's requestedProvider
    totalMinor,         \* per request: the handler's totalMinor
    reserved,           \* per request: the handler's reserved
    latency,            \* per request: fakeCharge's latency, while it sleeps
    timer,              \* per request: the time left, in ms, before its sleep ends
    charge,             \* per request: the result of fakeCharge
    res,                \* per request: the response sent
    steps,              \* per request: the steps the handler has made, in order
    got,                \* the response to the latest GET request
    TOTAL_USERS,        \* load simulator: the users to simulate
    BATCH_SIZE,         \* load simulator: the browsers run at a time
    INTER_BATCH_DELAY_MS,   \* load simulator: the pause between two batches
    completed,          \* load simulator: the flows that returned
    errors,             \* load simulator: the flows that threw
    jobs,               \* load simulator: the jobs of all batches so far
    mainPc,             \* load simulator: where main is
    products,           \* frontend: the products fetched from the backend
    cart,               \* frontend: the cart lines
    isCartOpen,         \* frontend: the cart drawer is open
    isCheckingOut,      \* frontend: a checkout is in progress
    paymentProvider,    \* frontend: the provider selected
    orderConfirmation,  \* frontend: the confirmation shown, or null
    checkoutError,      \* frontend: the error shown, or null
    fetching,           \* frontend: what the onCheckoutClick in flight closed over, and
                        \* the number its request has at the server, 0 before it arrives
    response            \* frontend: what the latest fetch of a checkout gave

serverVars == <<env, ORDERS, pc, req, requestedProvider, totalMinor, reserved,
                latency, timer, charge, res, steps, got>>

simVars == <<TOTAL_USERS, BATCH_SIZE, INTER_BATCH_DELAY_MS, completed, errors,
             jobs, mainPc>>

appVars == <<products, cart, isCartOpen, isCheckingOut, paymentProvider,
             orderConfirmation, checkoutError, fetching, response>>

vars == <<serverVars, simVars, appVars>>

---------------------------------------------------------------------------
(* Bounds of the model *)

MaxUsers == 4       \* largest TOTAL_USERS the load simulator is run with
MaxBatch == 2       \* largest BATCH_SIZE that is set
MaxReq == 2         \* requests the process receives in its lifetime
MaxLines == 2       \* cart lines of a request
MaxQty == 2         \* largest quantity of a line
RandSteps == 5      \* points of [0, 1) that Math.random() can return

Requests == 1 .. MaxReq
Rand == 0 .. (RandSteps - 1)

---------------------------------------------------------------------------
(* JavaScript values *)

Num(n) == [t |-> "number", v |-> n]
Undefined == [t |-> "undefined"]
NaN == [t |-> "NaN"]
Null == [t |-> "null"]
IsNum(x) == x.t = "number"

\* price * quantity, where price is a number: undefined coerces to NaN
Times(price, q) == IF IsNum(q) THEN Num(price * q.v) ELSE NaN

\* a + b
Plus(a, b) == IF IsNum(a) /\ IsNum(b) THEN Num(a.v + b.v) ELSE NaN

\* q <= 0: a comparison with undefined (NaN) is false
LeqZero(q) == IsNum(q) /\ q.v <= 0

\* Math.max(a, b) and Math.min(a, b): NaN when one of them is NaN
MathMax(a, b) == IF IsNum(a) /\ IsNum(b) THEN (IF a.v >= b.v THEN a ELSE b) ELSE NaN
MathMin(a, b) == IF IsNum(a) /\ IsNum(b) THEN (IF a.v <= b.v THEN a ELSE b) ELSE NaN

---------------------------------------------------------------------------
(* The catalog *)

PRODUCTS ==
    << [id |-> "npe", priceMinor |-> 1299],
       [id |-> "typeerror", priceMinor |-> 999],
       [id |-> "segfault", priceMinor |-> 1999],
       [id |-> "syntax", priceMinor |-> 599],
       [id |-> "oom", priceMinor |-> 2499] >>

\* PRODUCTS.find((p) => p.id === id): the index of the first match, 0 for none
FindProduct(id) ==
    IF \E i \in 1 .. Len(PRODUCTS) : PRODUCTS[i].id = id
    THEN CHOOSE i \in 1 .. Len(PRODUCTS) :
             /\ PRODUCTS[i].id = id
             /\ \A j \in 1 .. (i - 1) : PRODUCTS[j].id # id
    ELSE 0

---------------------------------------------------------------------------
(* Payment providers and their configuration *)

PAYMENT_PROVIDERS == << "ZapPay", "GlitchPay", "LagPay" >>

Providers == { PAYMENT_PROVIDERS[i] : i \in 1 .. Len(PAYMENT_PROVIDERS) }

\* Math.floor(Math.random() * PAYMENT_PROVIDERS.length), Math.random() = u / RandSteps
pickPaymentProvider(u) ==
    PAYMENT_PROVIDERS[((u * Len(PAYMENT_PROVIDERS)) \div RandSteps) + 1]

getDefaultConfig(provider) ==
    CASE provider = "ZapPay"    -> [minMs |-> 50, maxMs |-> 150, failureRate |-> 5]
      [] provider = "GlitchPay" -> [minMs |-> 200, maxMs |-> 1200, failureRate |-> 30]
      [] provider = "LagPay"    -> [minMs |-> 1200, maxMs |-> 3000, failureRate |-> 10]

\* provider.toUpperCase().replace(/[^A-Z0-9]/g, '')
KeyBase(provider) ==
    CASE provider = "ZapPay"    -> "ZAPPAY"
      [] provider = "GlitchPay" -> "GLITCHPAY"
      [] provider = "LagPay"    -> "LAGPAY"

Params == { "MIN_MS", "MAX_MS", "FAILURE_RATE" }

\* `PAYMENT_${keyBase}_${param}`
EnvKey(keyBase, param) == << "PAYMENT", keyBase, param >>

EnvKeys == { EnvKey(KeyBase(p), param) : p \in Providers, param \in Params }

\* The texts an environment variable can hold: the numeral of n (of n
\* hundredths for a failure rate), the empty text, a text that is no number
Numeral(n) == [t |-> "numeral", v |-> n]
EmptyText == [t |-> "empty"]
OtherText == [t |-> "text"]

\* Number(text): the number a numeral writes, 0 for the empty text, else NaN
Number(text) ==
    CASE text.t = "numeral" -> Num(text.v)
      [] text.t = "empty"   -> Num(0)
      [] OTHER              -> NaN

\* Number(process.env[key] ?? dflt): an unset variable is << >>, one that is
\* set is << text >>
FromEnv(key, dflt) == IF env[key] = << >> THEN Num(dflt) ELSE Number(env[key][1])

\* Mutant: the max latency is read from the variable of the min latency
getProviderConfig_MaxFromMinKey(provider) ==
    LET keyBase == KeyBase(provider)
        defaults == getDefaultConfig(provider)
    IN  [ minMs |-> FromEnv(EnvKey(keyBase, "MIN_MS"), defaults.minMs),
          maxMs |-> FromEnv(EnvKey(keyBase, "MIN_MS"), defaults.maxMs),
          failureRate |-> FromEnv(EnvKey(keyBase, "FAILURE_RATE"), defaults.failureRate) ]

getProviderConfig(provider) ==
    LET keyBase == KeyBase(provider)
        defaults == getDefaultConfig(provider)
    IN  [ minMs |-> FromEnv(EnvKey(keyBase, "MIN_MS"), defaults.minMs),
          maxMs |-> FromEnv(EnvKey(keyBase, "MAX_MS"), defaults.maxMs),
          failureRate |-> FromEnv(EnvKey(keyBase, "FAILURE_RATE"), defaults.failureRate) ]

getAllProviderConfigs == [ p \in Providers |-> getProviderConfig(p) ]

\* fakeCharge: min, max and failureRate, the values a charge against the
\* provider works with
ChargeMin(provider) == MathMax(Num(0), getProviderConfig(provider).minMs)

\* Mutant: the max latency is used as it is resolved
ChargeMax_AsResolved(provider) == getProviderConfig(provider).maxMs

ChargeMax(provider) == MathMax(ChargeMin(provider), getProviderConfig(provider).maxMs)

ChargeFailureRate(provider) ==
    MathMin(MathMax(getProviderConfig(provider).failureRate, Num(0)), Num(100))

\* Mutant: the range is taken without its last value
DrawLatency_MaxExcluded(provider, u) ==
    LET min == ChargeMin(provider)
        max == ChargeMax(provider)
    IN  IF IsNum(min) /\ IsNum(max)
        THEN Num(((u * (max.v - min.v)) \div RandSteps) + min.v)
        ELSE NaN

\* fakeCharge, before the sleep: the latency drawn with Math.random() = u / RandSteps
DrawLatency(provider, u) ==
    LET min == ChargeMin(provider)
        max == ChargeMax(provider)
    IN  IF IsNum(min) /\ IsNum(max)
        THEN Num(((u * (max.v - min.v + 1)) \div RandSteps) + min.v)
        ELSE NaN

\* Mutant: the comparison is turned around
DrawFailed_Inverted(provider, u) ==
    LET failureRate == ChargeFailureRate(provider)
    IN  IsNum(failureRate) /\ u * 100 > failureRate.v * RandSteps

\* Mutant: the comparison is not strict
DrawFailed_NotStrict(provider, u) ==
    LET failureRate == ChargeFailureRate(provider)
    IN  IsNum(failureRate) /\ u * 100 <= failureRate.v * RandSteps

\* fakeCharge, after the sleep: Math.random() < failureRate, in hundredths; a
\* comparison with NaN is false
DrawFailed(provider, u) ==
    LET failureRate == ChargeFailureRate(provider)
    IN  IsNum(failureRate) /\ u * 100 < failureRate.v * RandSteps

\* Math.random() < 0.8
DrawReserved(u) == u * 10 < 8 * RandSteps

---------------------------------------------------------------------------
(* Order identifiers *)

\* The digits of u / RandSteps after the point in base 36, at most n of them:
\* what (u / RandSteps).toString(36).slice(2, 2 + n) keeps
RECURSIVE Base36Fraction(_, _)
Base36Fraction(rem, n) ==
    IF rem = 0 \/ n = 0 THEN << >>
    ELSE << (rem * 36) \div RandSteps >>
             \o Base36Fraction((rem * 36) % RandSteps, n - 1)

\* `${prefix}_${rand}` with prefix 'ord'
randomId(u) == [prefix |-> "ord", rand |-> Base36Fraction(u, 8)]

---------------------------------------------------------------------------
(* Request bodies *)

Str(s) == [t |-> "string", v |-> s]
Arr(a) == [t |-> "array", v |-> a]
\* a truthy value that is not an array, such as {} or "abc"
Object == [t |-> "object"]

\* A cart line as JSON gives it; a key that is missing reads as undefined
Line(productId, quantity, priceMinor) ==
    [productId |-> productId, quantity |-> quantity, priceMinor |-> priceMinor]

LinesOf(productIds, quantities, prices) ==
    { Line(p, q, c) : p \in productIds, q \in quantities, c \in prices }

CartsOf(lines) == UNION { [1 .. n -> lines] : n \in 0 .. MaxLines }

BodiesOf(itemsValues, providerValues) ==
    { [items |-> i, paymentProvider |-> p] : i \in itemsValues, p \in providerValues }

\* The product ids requests name: two of the catalog and one that is not in it
ProductIdInputs == { "npe", "syntax", "zzz" }

QuantityInputs == { Num(q) : q \in (0 - 1) .. MaxQty } \cup { Undefined }

\* A client may send a price of its own with a line
PriceInputs == { Undefined, Num(1) }

ProviderInputs == { Str(PAYMENT_PROVIDERS[i]) : i \in 1 .. Len(PAYMENT_PROVIDERS) }
                      \cup { Str("PayPal"), Undefined }

\* Every cart of at most MaxLines lines, null lines included, and the values
\* of items that are no array; the provider is named
CartBodies ==
    BodiesOf( { Arr(c) : c \in CartsOf(LinesOf(ProductIdInputs, QuantityInputs, PriceInputs)
                                          \cup { Null }) }
                  \cup { Undefined, Object },
              { Str("ZapPay") } )

\* Two carts that pass validation and two that do not, for two providers
FewBodies ==
    BodiesOf( { Arr(<< >>),
                Arr(<< Null >>),
                Arr(<< Line("npe", Num(1), Undefined) >>),
                Arr(<< Line("syntax", Num(MaxQty), Undefined) >>) },
              { Str("ZapPay"), Str("LagPay") } )

\* A few carts, with every value of paymentProvider
ProviderBodies ==
    BodiesOf( { Arr(<< >>),
                Arr(<< Line("npe", Num(1), Undefined) >>),
                Arr(<< Line("syntax", Num(MaxQty), Undefined) >>),
                Arr(<< Null >>) },
              ProviderInputs )

\* One cart, for each of the three providers
NamedBodies ==
    BodiesOf( { Arr(<< Line("npe", Num(1), Undefined) >>) },
              { Str(PAYMENT_PROVIDERS[i]) : i \in 1 .. Len(PAYMENT_PROVIDERS) } )

\* Two carts that pass validation and one that does not, for one provider
StoreBodies ==
    BodiesOf( { Arr(<< >>),
                Arr(<< Line("npe", Num(1), Undefined) >>),
                Arr(<< Line("syntax", Num(MaxQty), Undefined) >>) },
              { Str("ZapPay") } )

---------------------------------------------------------------------------
(* process.env *)

NoOverrides == [ k \in EnvKeys |-> << >> ]

\* The overrides of one provider set to min, max, rate (each << >> or << text >>)
OverridesFor(provider, min, max, rate) ==
    [ k \in EnvKeys |->
        IF k = EnvKey(KeyBase(provider), "MIN_MS") THEN min
        ELSE IF k = EnvKey(KeyBase(provider), "MAX_MS") THEN max
        ELSE IF k = EnvKey(KeyBase(provider), "FAILURE_RATE") THEN rate
        ELSE << >> ]

EnvsOf(mins, maxs, rates) ==
    { OverridesFor(p, min, max, rate) :
        p \in Providers, min \in mins, max \in maxs, rate \in rates }

\* Every provider set to answer within 1 to 2 ms, as a test run sets them
FastEnv ==
    [ k \in EnvKeys |->
        IF k[3] = "MIN_MS" THEN << Numeral(1) >>
        ELSE IF k[3] = "MAX_MS" THEN << Numeral(2) >>
        ELSE << >> ]

\* Overrides in and out of range, and texts that are no numerals
ManyEnvs ==
    EnvsOf({ << >>, << Numeral(0 - 3) >>, << Numeral(0) >>, << Numeral(2) >>,
             << OtherText >> },
           { << >>, << Numeral(0 - 5) >>, << Numeral(1) >>, << Numeral(4) >>,
             << EmptyText >> },
           { << >>, << Numeral(0 - 20) >>, << Numeral(0) >>, << Numeral(50) >>,
             << Numeral(100) >>, << Numeral(150) >>, << OtherText >> })

---------------------------------------------------------------------------
(* The state after the process has started: no order, no request received *)

NoCharge == [provider |-> "none", status |-> "none"]
NoResponse == [status |-> 0, body |-> Undefined]
NoAnswer == [path |-> "none", status |-> 0, body |-> Undefined]

\* The load simulator is not run
SimOff ==
    /\ TOTAL_USERS = Num(500) /\ BATCH_SIZE = Num(5) /\ INTER_BATCH_DELAY_MS = Num(250)
    /\ completed = 0 /\ errors = 0
    /\ jobs = << >>
    /\ mainPc = "off"

\* The server has started, with the overrides of one of envs
ServerInit(envs) ==
    /\ env \in envs
    /\ ORDERS = << >>
    /\ pc = [r \in Requests |-> "idle"]
    /\ req = [r \in Requests |-> Undefined]
    /\ requestedProvider = [r \in Requests |-> "none"]
    /\ totalMinor = [r \in Requests |-> Undefined]
    /\ reserved = [r \in Requests |-> FALSE]
    /\ latency = [r \in Requests |-> Num(0)]
    /\ timer = [r \in Requests |-> 0]
    /\ charge = [r \in Requests |-> NoCharge]
    /\ res = [r \in Requests |-> NoResponse]
    /\ steps = [r \in Requests |-> << >>]
    /\ got = NoAnswer

\* The frontend as it is mounted: the initial values of its state
AppInit ==
    /\ products = << >>
    /\ cart = << >>
    /\ isCartOpen = FALSE
    /\ isCheckingOut = FALSE
    /\ paymentProvider = "ZapPay"
    /\ orderConfirmation = Null
    /\ checkoutError = Null
    /\ fetching = Null
    /\ response = Null

InitOf(envs) == SimOff /\ AppInit /\ ServerInit(envs)

---------------------------------------------------------------------------
(* POST /api/checkout *)

\* The statements of the handler at which a collaborator (the span, the
\* response) can throw; "none" is a run in which none does
Faults == { "none", "span_invalid", "span_charge", "span_reject", "span_confirm",
            "send_confirm" }

\* (req.body?.items) || []
ItemsOf(body) == IF body.items = Undefined THEN Arr(<< >>) ELSE body.items

\* Mutant: the provider is always picked at random
RequestedProviders_AlwaysPicked(body) == { pickPaymentProvider(u) : u \in Rand }

\* PAYMENT_PROVIDERS.find((p) => p === requestedProviderRaw) ?? pickPaymentProvider():
\* the provider named, or else the providers that can be picked
RequestedProviders(body) ==
    IF \E i \in 1 .. Len(PAYMENT_PROVIDERS) : Str(PAYMENT_PROVIDERS[i]) = body.paymentProvider
    THEN { body.paymentProvider.v }
    ELSE { pickPaymentProvider(u) : u \in Rand }

\* What a call can return, over the values Math.random() can take: the
\* reservation, the latency and the outcome of a charge, the order identifier
DrawnReserved == { DrawReserved(u) : u \in Rand }
DrawnLatencies(provider) == { DrawLatency(provider, u) : u \in Rand }
DrawnIds == { randomId(u) : u \in Rand }

\* fakeCharge(amountMinor, provider): the latency it draws before its sleep
\* and, after it, whether the charge failed, with Math.random() = u / RandSteps
fakeChargeLatency(amountMinor, provider, u) == DrawLatency(provider, u)

\* Mutant: a charge of the price of one npe always fails
fakeChargeFailed_ByAmount(amountMinor, provider, u) ==
    DrawFailed(provider, u) \/ amountMinor = Num(1299)

fakeChargeFailed(amountMinor, provider, u) == DrawFailed(provider, u)

\* What a call of fakeCharge can give
ChargeLatencies(amountMinor, provider) ==
    { fakeChargeLatency(amountMinor, provider, u) : u \in Rand }
ChargeFailed(amountMinor, provider) ==
    { fakeChargeFailed(amountMinor, provider, u) : u \in Rand }

\* !product || line.quantity <= 0, where product is the index FindProduct gives
LineRejected(product, line) == product = 0 \/ LeqZero(line.quantity)

\* Mutant: the price sent with the line is used when there is one
LineTotal_ClientPrice(product, line) ==
    IF IsNum(line.priceMinor) THEN Times(line.priceMinor.v, line.quantity)
    ELSE Times(PRODUCTS[product].priceMinor, line.quantity)

\* product.priceMinor * line.quantity
LineTotal(product, line) == Times(PRODUCTS[product].priceMinor, line.quantity)

\* Mutant: the loop reads every line before it rejects the cart
RECURSIVE ValidateLines_ToTheEnd(_, _, _)
ValidateLines_ToTheEnd(lines, i, total) ==
    IF \E j \in i .. Len(lines) : lines[j] = Null
    THEN [end |-> "throws", totalMinor |-> total]
    ELSE IF i > Len(lines) THEN [end |-> "valid", totalMinor |-> total]
    ELSE LET product == FindProduct(lines[i].productId)
         IN  IF LineRejected(product, lines[i])
             THEN [end |-> "invalid", totalMinor |-> total]
             ELSE ValidateLines_ToTheEnd(lines, i + 1,
                                         Plus(total, LineTotal(product, lines[i])))

\* The loop over the lines from line i on, with the total so far: it ends
\* "valid" with the total, "invalid" at a line that is rejected, or "throws"
\* at a null line, whose productId cannot be read
RECURSIVE ValidateLines(_, _, _)
ValidateLines(lines, i, total) ==
    IF i > Len(lines) THEN [end |-> "valid", totalMinor |-> total]
    ELSE IF lines[i] = Null THEN [end |-> "throws", totalMinor |-> total]
    ELSE LET product == FindProduct(lines[i].productId)
         IN  IF LineRejected(product, lines[i])
             THEN [end |-> "invalid", totalMinor |-> total]
             ELSE ValidateLines(lines, i + 1, Plus(total, LineTotal(product, lines[i])))

\* Mutant: a request is rejected only when both the charge and the reservation failed
Rejected_OnlyBoth(status, isReserved) == status = "failed" /\ ~isReserved

\* charge.status === 'failed' || !reserved
Rejected(status, isReserved) == status = "failed" \/ ~isReserved

\* Mutant: a failed reservation is reported as such
PaymentFailed_TellsReservation(status, isReserved) ==
    IF isReserved THEN [error |-> "Payment failed"] ELSE [error |-> "Out of stock"]

\* The body of the 402 response
PaymentFailed(status, isReserved) == [error |-> "Payment failed"]

\* Mutant: the order is written over the last one of the store
Push_OverLast(orders, order) ==
    IF orders = << >> THEN << order >> ELSE [orders EXCEPT ![Len(orders)] = order]

\* Mutant: the order is put at the head of the store
Push_AtHead(orders, order) == << order >> \o orders

\* ORDERS.push(order)
Push(orders, order) == Append(orders, order)

\* sleep(ms): setTimeout(resolve, ms), whose delay is 1 when ms is below 1 or NaN
TimeoutOf(ms) == IF IsNum(ms) /\ ms.v >= 1 THEN ms.v ELSE 1

\* The requests that are in their sleep, and the least time one of them has left
Sleeping == { q \in Requests : pc[q] = "charging" }
MinLeft ==
    IF Sleeping = { } THEN 0
    ELSE CHOOSE t \in { timer[q] : q \in Sleeping } : \A q \in Sleeping : t <= timer[q]

\* The timers after t ms have passed and request r has set its own to mine
Elapse(t, r, mine) ==
    [ q \in Requests |->
        IF q = r THEN mine ELSE IF q \in Sleeping THEN timer[q] - t ELSE 0 ]

\* Mutant: a timer fires only when no other request sleeps
Due_WhenAlone(r) == Sleeping = { r }

\* Mutant: the sleeps end in the order in which they began
Due_InOrderOfArrival(r) == r \in Sleeping /\ \A q \in Sleeping : r <= q

\* The timer of request r is the next to fire: no sleep has less time left
Due(r) == r \in Sleeping /\ timer[r] = MinLeft

\* The steps of the handler, by the calls they make: the random pick of a
\* provider when the body names none of the three, the validation of the
\* cart, the reservation draw, the charge, the decision, the response
SelectSteps(body) ==
    IF \E i \in 1 .. Len(PAYMENT_PROVIDERS) : Str(PAYMENT_PROVIDERS[i]) = body.paymentProvider
    THEN << >>
    ELSE << "pickPaymentProvider" >>

\* Mutant: a cart whose reservation failed is not charged
ChargeSteps_OnlyIfReserved(isReserved) ==
    IF isReserved THEN << "reserve", "fakeCharge" >> ELSE << "reserve" >>

\* const reserved = ...; const charge = await ... fakeCharge(...)
ChargeSteps(isReserved) == << "reserve", "fakeCharge" >>

\* res.status(status).json(body): the request is answered, after the steps done
Send(r, status, body, done) ==
    /\ res' = [res EXCEPT ![r] = [status |-> status, body |-> body]]
    /\ steps' = [steps EXCEPT ![r] = @ \o done \o << "respond" >>]
    /\ pc' = [pc EXCEPT ![r] = "done"]

\* The catch block of the handler
InternalError(r, done) == Send(r, 500, [error |-> "Internal error"], done)

\* The handler from its first statement to the sleep of fakeCharge.  The
\* requests are numbered in the order in which they arrive; request r arrives
\* elapsed ms after the step before, and before any sleep that is not over.
Received(r, bodies, faults) ==
    /\ pc[r] = "idle"
    /\ \A q \in Requests : q < r => pc[q] # "idle"
    /\ \E body \in bodies, fault \in faults \cap { "none", "span_invalid" },
          elapsed \in 0 .. MinLeft :
        /\ req' = [req EXCEPT ![r] = body]
        /\ \E provider \in RequestedProviders(body) :
               requestedProvider' = [requestedProvider EXCEPT ![r] = provider]
        /\ IF ItemsOf(body).t # "array" \/ Len(ItemsOf(body).v) = 0
           THEN /\ IF fault = "span_invalid"
                   THEN InternalError(r, SelectSteps(body) \o << "validate" >>)
                   ELSE Send(r, 400, [error |-> "Cart is empty"],
                             SelectSteps(body) \o << "validate" >>)
                /\ timer' = Elapse(elapsed, r, 0)
                /\ UNCHANGED << totalMinor, reserved, latency >>
           ELSE LET loop == ValidateLines(ItemsOf(body).v, 1, Num(0))
                IN  /\ totalMinor' = [totalMinor EXCEPT ![r] = loop.totalMinor]
                    /\ CASE loop.end = "throws" ->
                              /\ InternalError(r, SelectSteps(body) \o << "validate" >>)
                              /\ timer' = Elapse(elapsed, r, 0)
                              /\ UNCHANGED << reserved, latency >>
                         [] loop.end = "invalid" ->
                              /\ IF fault = "span_invalid"
                                 THEN InternalError(r, SelectSteps(body) \o << "validate" >>)
                                 ELSE Send(r, 400, [error |-> "Invalid cart item"],
                                           SelectSteps(body) \o << "validate" >>)
                              /\ timer' = Elapse(elapsed, r, 0)
                              /\ UNCHANGED << reserved, latency >>
                         [] loop.end = "valid" ->
                              /\ fault = "none"
                              /\ \E isReserved \in DrawnReserved :
                                     /\ reserved' = [reserved EXCEPT ![r] = isReserved]
                                     /\ steps' = [steps EXCEPT ![r] =
                                            SelectSteps(body) \o << "validate" >>
                                                \o ChargeSteps(isReserved)]
                              /\ \E ms \in ChargeLatencies(totalMinor'[r], requestedProvider'[r]) :
                                     /\ latency' = [latency EXCEPT ![r] = ms]
                                     /\ timer' = Elapse(elapsed, r, TimeoutOf(ms))
                              /\ pc' = [pc EXCEPT ![r] = "charging"]
                              /\ UNCHANGED res
    /\ UNCHANGED << env, ORDERS, charge, got >>

\* A request of some client: the frontend of this model is not touched
Checkout(r, bodies, faults) ==
    /\ Received(r, bodies, faults)
    /\ UNCHANGED << simVars, appVars >>

\* The handler from the end of the sleep, once the time left has passed, to
\* its response
Settle(r, faults) ==
    /\ pc[r] = "charging"
    /\ Due(r)
    /\ timer' = Elapse(timer[r], r, 0)
    /\ \E fault \in faults \ { "span_invalid" },
          failed \in ChargeFailed(totalMinor[r], requestedProvider[r]) :
         LET result == [provider |-> requestedProvider[r],
                        status |-> IF failed THEN "failed" ELSE "success"]
         IN  IF fault = "span_charge"
             THEN InternalError(r, << >>) /\ UNCHANGED << ORDERS, charge >>
             ELSE /\ charge' = [charge EXCEPT ![r] = result]
                  /\ IF Rejected(result.status, reserved[r])
                     THEN /\ fault \in { "none", "span_reject" }
                          /\ IF fault = "span_reject" THEN InternalError(r, << "decide" >>)
                             ELSE Send(r, 402, PaymentFailed(result.status, reserved[r]),
                                       << "decide" >>)
                          /\ UNCHANGED ORDERS
                     ELSE \E orderId \in DrawnIds :
                          /\ fault \in { "none", "span_confirm", "send_confirm" }
                          /\ ORDERS' = Push(ORDERS, [id |-> orderId,
                                                     totalMinor |-> totalMinor[r],
                                                     items |-> ItemsOf(req[r]).v])
                          /\ IF fault \in { "span_confirm", "send_confirm" }
                             THEN InternalError(r, << "decide", "push" >>)
                             ELSE Send(r, 200, [orderId |-> orderId,
                                                paymentProvider |-> result.provider],
                                       << "decide", "push" >>)
    /\ latency' = [latency EXCEPT ![r] = Num(0)]
    /\ UNCHANGED << env, req, requestedProvider, totalMinor, reserved, got, simVars,
                    appVars >>

---------------------------------------------------------------------------
(* The GET endpoints *)

\* JSON.stringify of a number: NaN is written null
JSONNumber(x) == IF IsNum(x) THEN x ELSE Null

\* res.json(cfg): the config of every provider as the response carries it
JSONConfigs(cfgs) ==
    [ p \in DOMAIN cfgs |-> [ minMs |-> JSONNumber(cfgs[p].minMs),
                              maxMs |-> JSONNumber(cfgs[p].maxMs),
                              failureRate |-> JSONNumber(cfgs[p].failureRate) ] ]

\* res.json(body) of a GET handler: the status is 200
Answer(path, body) ==
    /\ got' = [path |-> path, status |-> 200, body |-> body]
    /\ UNCHANGED << env, ORDERS, pc, req, requestedProvider, totalMinor, reserved,
                    latency, timer, charge, res, steps, simVars, appVars >>

\* GET /api/health
GetHealth == Answer("/api/health", [ok |-> TRUE])

\* GET /api/products
GetProducts == Answer("/api/products", PRODUCTS)

\* GET /api/payment-config
GetPaymentConfig == Answer("/api/payment-config", JSONConfigs(getAllProviderConfigs))

---------------------------------------------------------------------------
(* Specifications *)

\* What the server can do with the requests rs, whose bodies are in bodies,
\* when its collaborators can throw at the statements faults
NextOf(rs, bodies, faults) ==
    \E r \in rs :
        \/ Checkout(r, bodies, faults)
        \/ Settle(r, faults)

\* MaxReq requests, which may overlap; no collaborator throws
Init == InitOf({ FastEnv })
Next == NextOf(Requests, FewBodies, { "none" })
Spec == Init /\ [][Next]_vars

\* Two requests, which may overlap, with carts of different amounts
Pair == { 1, 2 }
NextPair == NextOf(Pair, FewBodies, { "none" })
SpecPair == Init /\ [][NextPair]_vars

\* One request with any cart
InitCart == InitOf({ NoOverrides })
NextCart == NextOf({ 1 }, CartBodies, { "none" })
SpecCart == InitCart /\ [][NextCart]_vars

\* One request with any value of paymentProvider, under any overrides
InitEnv == InitOf(ManyEnvs)
NextEnv == NextOf({ 1 }, ProviderBodies, { "none" })
SpecEnv == InitEnv /\ [][NextEnv]_vars

\* One request during which a collaborator can throw
InitFault == InitOf({ NoOverrides })
NextFault == NextOf({ 1 }, ProviderBodies, Faults)
SpecFault == InitFault /\ [][NextFault]_vars

\* One request for a provider that is named, and the GET endpoints, under
\* any overrides
NextConfig ==
    \/ NextOf({ 1 }, NamedBodies, { "none" })
    \/ GetHealth
    \/ GetProducts
    \/ GetPaymentConfig
SpecConfig == InitEnv /\ [][NextConfig]_vars

\* MaxReq requests, which may overlap and during which a collaborator can
\* throw, and the GET endpoints
NextStore ==
    \/ NextOf(Requests, StoreBodies, Faults)
    \/ GetHealth
    \/ GetProducts
    \/ GetPaymentConfig
SpecStore == Init /\ [][NextStore]_vars

\* Two requests, which may overlap and during which a collaborator can
\* throw; the event loop runs the timer that is due
NextLive == NextOf(Pair, StoreBodies, Faults)
SpecLive ==
    Init /\ [][NextLive]_vars /\ \A r \in Pair : WF_vars(Settle(r, Faults))

---------------------------------------------------------------------------
(* The batch load simulator *)

\* Number(process.env.X || dflt): an unset variable and one set to the empty
\* text give the default
OrDefault(value, dflt) ==
    IF value = << >> \/ value = << EmptyText >> THEN Num(dflt) ELSE Number(value[1])

\* a < b: a comparison with NaN is false
Less(a, b) == IsNum(a) /\ IsNum(b) /\ a.v < b.v

\* a - b
Minus(a, b) == IF IsNum(a) /\ IsNum(b) THEN Num(a.v - b.v) ELSE NaN

\* The length Array.from({ length: x }) gives: 0 for NaN and below 0
ToLength(x) == IF IsNum(x) /\ x.v > 0 THEN x.v ELSE 0

\* completed + errors < TOTAL_USERS
UsersRemain(c, e) == Less(Num(c + e), TOTAL_USERS)

\* Math.min(BATCH_SIZE, remaining), remaining = TOTAL_USERS - (completed + errors)
batchCount == MathMin(BATCH_SIZE, Minus(TOTAL_USERS, Num(completed + errors)))

\* The batch that runs, 0 before the first; its jobs; the jobs not settled
Batch == IF jobs = << >> THEN 0 ELSE jobs[Len(jobs)].batch
JobsOf(b) == { j \in 1 .. Len(jobs) : jobs[j].batch = b }
Unsettled == { j \in 1 .. Len(jobs) : jobs[j].at \in { "launch", "flow", "close" } }

\* A job as the map callback leaves it: at the await of chromium.launch
NewJob(b) == [batch |-> b, at |-> "launch", flow |-> "none"]

\* The script has started: the values read from the environment, no user yet
InitSimOf(totals, sizes, delays) ==
    /\ \E value \in totals : TOTAL_USERS = OrDefault(value, 500)
    /\ \E value \in sizes : BATCH_SIZE = OrDefault(value, 5)
    /\ \E value \in delays : INTER_BATCH_DELAY_MS = OrDefault(value, 250)
    /\ completed = 0 /\ errors = 0
    /\ jobs = << >>
    /\ mainPc = "while"

\* main, the test of the loop holds: the jobs of a batch are made, each runs
\* up to its first await, and main awaits them all
StartBatch ==
    /\ mainPc = "while"
    /\ UsersRemain(completed, errors)
    /\ jobs' = jobs \o [ i \in 1 .. ToLength(batchCount) |-> NewJob(Batch + 1) ]
    /\ mainPc' = "await all"
    /\ UNCHANGED << TOTAL_USERS, BATCH_SIZE, INTER_BATCH_DELAY_MS, completed, errors >>
    /\ UNCHANGED << serverVars, appVars >>

\* main, the test of the loop fails: 'Done' is printed
PrintDone ==
    /\ mainPc = "while"
    /\ ~UsersRemain(completed, errors)
    /\ mainPc' = "done"
    /\ UNCHANGED << TOTAL_USERS, BATCH_SIZE, INTER_BATCH_DELAY_MS, completed, errors, jobs >>
    /\ UNCHANGED << serverVars, appVars >>

\* The process runs: it has not exited
Running == mainPc \in { "while", "await all", "delay" }

\* A job, the browser, context and page are there: runUserFlow is called
Launched(j) ==
    /\ Running
    /\ jobs[j].at = "launch"
    /\ jobs' = [jobs EXCEPT ![j].at = "flow", ![j].flow = "running"]
    /\ UNCHANGED << TOTAL_USERS, BATCH_SIZE, INTER_BATCH_DELAY_MS, completed, errors, mainPc >>
    /\ UNCHANGED << serverVars, appVars >>

\* A job, chromium.launch, newContext or newPage throws: the job is rejected
LaunchFails(j) ==
    /\ Running
    /\ jobs[j].at = "launch"
    /\ jobs' = [jobs EXCEPT ![j].at = "rejected"]
    /\ UNCHANGED << TOTAL_USERS, BATCH_SIZE, INTER_BATCH_DELAY_MS, completed, errors, mainPc >>
    /\ UNCHANGED << serverVars, appVars >>

\* Mutant: a flow that throws is counted nowhere
Tally_ThrowsUncounted(outcome, c, e) ==
    IF outcome = "returned" THEN [completed |-> c + 1, errors |-> e]
    ELSE [completed |-> c, errors |-> e]

\* completed += 1 after runUserFlow returned, errors += 1 in the catch
Tally(outcome, c, e) ==
    IF outcome = "returned" THEN [completed |-> c + 1, errors |-> e]
    ELSE [completed |-> c, errors |-> e + 1]

\* A job, runUserFlow returns or throws: the flow is counted and the job goes
\* on to close its page, context and browser
FlowEnds(j) ==
    /\ Running
    /\ jobs[j].at = "flow"
    /\ \E outcome \in { "returned", "threw" } :
          /\ jobs' = [jobs EXCEPT ![j].at = "close", ![j].flow = outcome]
          /\ completed' = Tally(outcome, completed, errors).completed
          /\ errors' = Tally(outcome, completed, errors).errors
    /\ UNCHANGED << TOTAL_USERS, BATCH_SIZE, INTER_BATCH_DELAY_MS, mainPc >>
    /\ UNCHANGED << serverVars, appVars >>

\* A job, the finally block is over: the job is fulfilled
Closed(j) ==
    /\ Running
    /\ jobs[j].at = "close"
    /\ jobs' = [jobs EXCEPT ![j].at = "fulfilled"]
    /\ UNCHANGED << TOTAL_USERS, BATCH_SIZE, INTER_BATCH_DELAY_MS, completed, errors, mainPc >>
    /\ UNCHANGED << serverVars, appVars >>

\* Mutant: main goes on as soon as one job of the batch is fulfilled
AllFulfilled_Any(b) == JobsOf(b) = { } \/ \E j \in JobsOf(b) : jobs[j].at = "fulfilled"

\* Promise.all(jobs) is fulfilled: every job of the batch is
AllFulfilled(b) == \A j \in JobsOf(b) : jobs[j].at = "fulfilled"

\* Mutant: the pause is waited after every batch
Pauses_Always(c, e) == TRUE

\* completed + errors < TOTAL_USERS && INTER_BATCH_DELAY_MS > 0
Pauses(c, e) == UsersRemain(c, e) /\ Less(Num(0), INTER_BATCH_DELAY_MS)

\* main, await Promise.all(jobs) is over: the pause, or the loop again
BatchDone ==
    /\ mainPc = "await all"
    /\ AllFulfilled(Batch)
    /\ mainPc' = IF Pauses(completed, errors) THEN "delay" ELSE "while"
    /\ UNCHANGED << TOTAL_USERS, BATCH_SIZE, INTER_BATCH_DELAY_MS, completed, errors, jobs >>
    /\ UNCHANGED << serverVars, appVars >>

\* main, a job of the batch is rejected: Promise.all rejects, main rejects
\* and its catch ends the process with process.exit(1)
BatchFails ==
    /\ mainPc = "await all"
    /\ \E j \in JobsOf(Batch) : jobs[j].at = "rejected"
    /\ mainPc' = "exit"
    /\ UNCHANGED << TOTAL_USERS, BATCH_SIZE, INTER_BATCH_DELAY_MS, completed, errors, jobs >>
    /\ UNCHANGED << serverVars, appVars >>

\* main, the pause between two batches is over
DelayOver ==
    /\ mainPc = "delay"
    /\ mainPc' = "while"
    /\ UNCHANGED << TOTAL_USERS, BATCH_SIZE, INTER_BATCH_DELAY_MS, completed, errors, jobs >>
    /\ UNCHANGED << serverVars, appVars >>

\* What the simulator does when every browser, context and page is opened
NextLaunching ==
    \/ StartBatch
    \/ PrintDone
    \/ \E j \in 1 .. Len(jobs) : Launched(j)
    \/ \E j \in 1 .. Len(jobs) : FlowEnds(j)
    \/ \E j \in 1 .. Len(jobs) : Closed(j)
    \/ BatchDone
    \/ DelayOver

NextSim ==
    \/ NextLaunching
    \/ \E j \in 1 .. Len(jobs) : LaunchFails(j)
    \/ BatchFails

\* The values the variables are set to: counts of users and pauses
UserCounts == { << Numeral(n) >> : n \in 0 .. MaxUsers }
BatchSizes == { << Numeral(n) >> : n \in 1 .. MaxBatch } \cup { << >> }
Delays == { << >>, << Numeral(0) >>, << Numeral(10) >> }

\* The simulator run with counts of users and sizes of batches
InitSim == ServerInit({ NoOverrides }) /\ AppInit /\ InitSimOf(UserCounts, BatchSizes, Delays)
SpecSim == InitSim /\ [][NextSim]_vars

\* The simulator run with whatever the variables are set to, every launch
\* succeeding; the event loop runs what is ready
AnyUserCounts == UserCounts \cup { << Numeral(0 - 1) >>, << OtherText >> }
AnyBatchSizes == BatchSizes \cup { << Numeral(0) >>, << Numeral(0 - 1) >>, << OtherText >>,
                                   << EmptyText >> }
InitSimAny ==
    ServerInit({ NoOverrides }) /\ AppInit /\ InitSimOf(AnyUserCounts, AnyBatchSizes, Delays)
SpecSimAny == InitSimAny /\ [][NextLaunching]_vars /\ WF_vars(NextLaunching)

---------------------------------------------------------------------------
(* The frontend *)

\* The product a user puts in the cart
Shown == { "npe" }

\* products.find((p) => p.id === id): the index of the first match, 0 for none
FindShown(id) ==
    IF \E i \in 1 .. Len(products) : products[i].id = id
    THEN CHOOSE i \in 1 .. Len(products) :
             /\ products[i].id = id
             /\ \A j \in 1 .. (i - 1) : products[j].id # id
    ELSE 0

\* The line of the cart prev for the product, 0 for none
FindLine(prev, productId) ==
    IF \E i \in 1 .. Len(prev) : prev[i].productId = productId
    THEN CHOOSE i \in 1 .. Len(prev) :
             /\ prev[i].productId = productId
             /\ \A j \in 1 .. (i - 1) : prev[j].productId # productId
    ELSE 0

\* prev.filter(keep)
RECURSIVE Without(_, _)
Without(prev, productId) ==
    IF prev = << >> THEN << >>
    ELSE IF Head(prev).productId = productId THEN Without(Tail(prev), productId)
    ELSE << Head(prev) >> \o Without(Tail(prev), productId)

\* Mutant: a line is appended whatever the cart holds
Added_AlwaysAppended(prev, productId) ==
    Append(prev, [productId |-> productId, quantity |-> 1])

\* The update of addToCart
Added(prev, productId) ==
    IF FindLine(prev, productId) # 0
    THEN [ i \in 1 .. Len(prev) |->
             IF prev[i].productId = productId
             THEN [prev[i] EXCEPT !.quantity = @ + 1] ELSE prev[i] ]
    ELSE Append(prev, [productId |-> productId, quantity |-> 1])

\* The update of updateQuantity for a quantity above 0
Updated(prev, productId, quantity) ==
    [ i \in 1 .. Len(prev) |->
        IF prev[i].productId = productId
        THEN [prev[i] EXCEPT !.quantity = quantity] ELSE prev[i] ]

\* Mutant: the value of the cart counts every line once
RECURSIVE cartValueMinor_OnePerLine(_)
cartValueMinor_OnePerLine(lines) ==
    IF lines = << >> THEN 0
    ELSE LET product == FindShown(Head(lines).productId)
         IN  (IF product # 0 THEN products[product].priceMinor ELSE 0)
                 + cartValueMinor_OnePerLine(Tail(lines))

\* cart.reduce(...): the value of the cart at the prices of products
RECURSIVE cartValueMinor(_)
cartValueMinor(lines) ==
    IF lines = << >> THEN 0
    ELSE LET product == FindShown(Head(lines).productId)
         IN  (IF product # 0 THEN products[product].priceMinor * Head(lines).quantity ELSE 0)
                 + cartValueMinor(Tail(lines))

\* The effect fetches the products: the answer of GET /api/products, or none
ProductsFetched ==
    /\ products = << >>
    /\ products' = PRODUCTS
    /\ UNCHANGED << cart, isCartOpen, isCheckingOut, paymentProvider, orderConfirmation,
                    checkoutError, fetching, response >>
    /\ UNCHANGED << serverVars, simVars >>

\* The button of a product card; the quantity of a line is kept within MaxQty
addToCart(productId) ==
    /\ FindShown(productId) # 0
    /\ FindLine(cart, productId) # 0 => cart[FindLine(cart, productId)].quantity < MaxQty
    /\ cart' = Added(cart, productId)
    /\ UNCHANGED << products, isCartOpen, isCheckingOut, paymentProvider,
                    orderConfirmation, checkoutError, fetching, response >>
    /\ UNCHANGED << serverVars, simVars >>

removeFromCart(productId) ==
    /\ cart' = Without(cart, productId)
    /\ UNCHANGED << products, isCartOpen, isCheckingOut, paymentProvider,
                    orderConfirmation, checkoutError, fetching, response >>
    /\ UNCHANGED << serverVars, simVars >>

updateQuantity(productId, quantity) ==
    IF quantity <= 0 THEN removeFromCart(productId)
    ELSE /\ cart' = Updated(cart, productId, quantity)
         /\ UNCHANGED << products, isCartOpen, isCheckingOut, paymentProvider,
                         orderConfirmation, checkoutError, fetching, response >>
         /\ UNCHANGED << serverVars, simVars >>

\* The drawer shows the lines whose product is found, with their buttons
LineShown(productId) ==
    isCartOpen /\ FindLine(cart, productId) # 0 /\ FindShown(productId) # 0

\* The minus button of a line: Math.max(0, line.quantity - 1)
MinusClick(productId) ==
    /\ LineShown(productId)
    /\ LET quantity == cart[FindLine(cart, productId)].quantity - 1
       IN  updateQuantity(productId, IF quantity > 0 THEN quantity ELSE 0)

\* The plus button of a line
PlusClick(productId) ==
    /\ LineShown(productId)
    /\ cart[FindLine(cart, productId)].quantity < MaxQty
    /\ updateQuantity(productId, cart[FindLine(cart, productId)].quantity + 1)

\* The Remove button of a line
RemoveClick(productId) ==
    /\ LineShown(productId)
    /\ removeFromCart(productId)

\* The cart button, and the close button of the drawer
SetIsCartOpen(open) ==
    /\ isCartOpen # open
    /\ isCartOpen' = open
    /\ UNCHANGED << products, cart, isCheckingOut, paymentProvider, orderConfirmation,
                    checkoutError, fetching, response >>
    /\ UNCHANGED << serverVars, simVars >>

\* The footer of the drawer is shown when the cart has a line
FooterShown == isCartOpen /\ cart # << >>

\* A button of the payment method
SetPaymentProvider(provider) ==
    /\ FooterShown
    /\ paymentProvider # provider
    /\ paymentProvider' = provider
    /\ UNCHANGED << products, cart, isCartOpen, isCheckingOut, orderConfirmation,
                    checkoutError, fetching, response >>
    /\ UNCHANGED << serverVars, simVars >>

\* The close button of the error toast, the confirmation modal
Dismiss ==
    /\ \/ checkoutError # Null /\ checkoutError' = Null /\ UNCHANGED orderConfirmation
       \/ orderConfirmation # Null /\ orderConfirmation' = Null /\ UNCHANGED checkoutError
    /\ UNCHANGED << products, cart, isCartOpen, isCheckingOut, paymentProvider,
                    fetching, response >>
    /\ UNCHANGED << serverVars, simVars >>

\* Mutant: the checkout button is never disabled
CheckoutDisabled_Never == FALSE

\* disabled={isCheckingOut} of the checkout button
CheckoutDisabled == isCheckingOut

\* onCheckoutClick up to await fetch: the checkout button is shown and not
\* disabled
onCheckoutClick ==
    /\ FooterShown
    /\ ~CheckoutDisabled
    /\ isCheckingOut' = TRUE
    /\ checkoutError' = Null
    /\ fetching' = [ items |-> cart, paymentProvider |-> paymentProvider,
                     cartValueMinor |-> cartValueMinor(cart), request |-> 0 ]
    /\ UNCHANGED << products, cart, isCartOpen, paymentProvider, orderConfirmation,
                    response >>
    /\ UNCHANGED << serverVars, simVars >>

\* What fetch can give: the responses of the backend, a response that is not
\* OK and has no JSON body, or no response at all
OkResponses ==
    { [ ok |-> TRUE, status |-> 200,
        body |-> [orderId |-> randomId(u), paymentProvider |-> p] ] :
        u \in { 0, 1 }, p \in Providers }
ErrorResponses ==
    { [ ok |-> FALSE, status |-> 400, body |-> [error |-> "Cart is empty"] ],
      [ ok |-> FALSE, status |-> 400, body |-> [error |-> "Invalid cart item"] ],
      [ ok |-> FALSE, status |-> 402, body |-> [error |-> "Payment failed"] ],
      [ ok |-> FALSE, status |-> 500, body |-> [error |-> "Internal error"] ],
      [ ok |-> FALSE, status |-> 502, body |-> Undefined ] }
FailedToFetch == [ ok |-> FALSE, status |-> 0, body |-> Undefined ]

\* Mutant: every error is shown as the same text
ErrorMessage_Cleared(r) == Null

\* err.message: errorData.error || `HTTP ${status}` of a response that is not
\* OK, 'Payment failed' when its body is no JSON, the message of fetch's TypeError
ErrorMessage(r) ==
    IF r = FailedToFetch THEN Str("Failed to fetch")
    ELSE IF r.body = Undefined THEN Str("Payment failed")
    ELSE Str(r.body.error)

\* onCheckoutClick from the end of the fetch on, the fetch giving one of
\* responses
onCheckoutSettledWith(responses) ==
    /\ isCheckingOut
    /\ fetching # Null
    /\ \E r \in responses :
          /\ response' = r
          /\ IF r.ok
             THEN /\ orderConfirmation' = [ orderId |-> r.body.orderId,
                                            provider |-> r.body.paymentProvider,
                                            total |-> fetching.cartValueMinor ]
                  /\ cart' = << >>
                  /\ isCartOpen' = FALSE
                  /\ UNCHANGED checkoutError
             ELSE /\ checkoutError' = ErrorMessage(r)
                  /\ UNCHANGED << orderConfirmation, cart, isCartOpen >>
    /\ isCheckingOut' = FALSE
    /\ fetching' = Null
    /\ UNCHANGED << products, paymentProvider >>
    /\ UNCHANGED << serverVars, simVars >>

onCheckoutSettled ==
    onCheckoutSettledWith(OkResponses \cup ErrorResponses \cup { FailedToFetch })

NextApp ==
    \/ ProductsFetched
    \/ \E productId \in Shown : PlusClick(productId)
    \/ \E productId \in Shown : RemoveClick(productId)
    \/ \E productId \in Shown : MinusClick(productId)
    \/ \E productId \in Shown : addToCart(productId)
    \/ \E open \in BOOLEAN : SetIsCartOpen(open)
    \/ \E provider \in Providers : SetPaymentProvider(provider)
    \/ Dismiss
    \/ onCheckoutClick
    \/ onCheckoutSettled

InitApp == ServerInit({ NoOverrides }) /\ SimOff /\ AppInit
SpecApp == InitApp /\ [][NextApp]_vars

\* The cart of two products, edited and checked out; every checkout is
\* confirmed
TwoShown == { "npe", "syntax" }
NextEdit ==
    \/ ProductsFetched
    \/ \E productId \in TwoShown : PlusClick(productId)
    \/ \E productId \in TwoShown : RemoveClick(productId)
    \/ \E productId \in TwoShown : MinusClick(productId)
    \/ \E productId \in TwoShown : addToCart(productId)
    \/ \E open \in BOOLEAN : SetIsCartOpen(open)
    \/ onCheckoutClick
    \/ onCheckoutSettledWith({ r \in OkResponses : r.body.orderId = randomId(1)
                                                    /\ r.body.paymentProvider = "ZapPay" })
SpecEdit == InitApp /\ [][NextEdit]_vars

---------------------------------------------------------------------------
(* The frontend and the backend together *)

\* JSON.stringify({ items: cart, paymentProvider }): the body of the fetch
BodyOf(closure) ==
    [ items |-> Arr([ i \in 1 .. Len(closure.items) |->
                        Line(closure.items[i].productId,
                             Num(closure.items[i].quantity), Undefined) ]),
      paymentProvider |-> Str(closure.paymentProvider) ]

\* The response of the server as fetch gives it: ok for a status 200 to 299
ResponseOf(answer) ==
    [ ok |-> answer.status \in 200 .. 299, status |-> answer.status, body |-> answer.body ]

\* The request of the click in flight arrives at the server
Arrives(r) ==
    /\ isCheckingOut
    /\ fetching # Null
    /\ fetching.request = 0
    /\ Received(r, { BodyOf(fetching) }, { "none" })
    /\ fetching' = [fetching EXCEPT !.request = r]
    /\ UNCHANGED << products, cart, isCartOpen, isCheckingOut, paymentProvider,
                    orderConfirmation, checkoutError, response >>
    /\ UNCHANGED simVars

\* The response to the click in flight arrives at the frontend
Delivered(r) ==
    /\ fetching # Null
    /\ fetching.request = r
    /\ pc[r] = "done"
    /\ onCheckoutSettledWith({ ResponseOf(res[r]) })

\* One browser session against the server, which receives two requests
NextShop ==
    \/ ProductsFetched
    \/ \E productId \in Shown : PlusClick(productId)
    \/ \E productId \in Shown : RemoveClick(productId)
    \/ \E productId \in Shown : MinusClick(productId)
    \/ \E productId \in Shown : addToCart(productId)
    \/ \E open \in BOOLEAN : SetIsCartOpen(open)
    \/ onCheckoutClick
    \/ \E r \in Pair : Arrives(r)
    \/ \E r \in Pair : Settle(r, { "none" })
    \/ \E r \in Pair : Delivered(r)
    \/ onCheckoutSettledWith({ FailedToFetch })
SpecShop == Init /\ [][NextShop]_vars

---------------------------------------------------------------------------
(* What the claims speak of, stated on the request and not on the handler *)

CatalogIds == { PRODUCTS[i].id : i \in 1 .. Len(PRODUCTS) }

CatalogPrice(id) == PRODUCTS[CHOOSE i \in 1 .. Len(PRODUCTS) : PRODUCTS[i].id = id].priceMinor

NonPositive(q) == IsNum(q) /\ q.v <= 0

\* The cart is missing, not a list or empty
NoCart(body) ==
    \/ body.items = Undefined
    \/ body.items.t # "array"
    \/ Len(body.items.v) = 0

\* The cart has a line with a product id not in the catalog or a non-positive quantity
HasBadLine(body) ==
    /\ ~NoCart(body)
    /\ \E i \in 1 .. Len(body.items.v) :
          /\ body.items.v[i] # Null
          /\ \/ body.items.v[i].productId \notin CatalogIds
             \/ NonPositive(body.items.v[i].quantity)

\* A non-empty list of lines, each naming a catalog product and none with a
\* non-positive quantity
PassesValidation(body) ==
    /\ ~NoCart(body)
    /\ \A i \in 1 .. Len(body.items.v) :
          /\ body.items.v[i] # Null
          /\ body.items.v[i].productId \in CatalogIds
          /\ ~NonPositive(body.items.v[i].quantity)

\* Request r makes its last step: it is answered
Answered(r) == pc[r] # "done" /\ pc'[r] = "done"

\* The step appends one order, with the identifier id, to the store
AppendsOrder(id) ==
    /\ Len(ORDERS') = Len(ORDERS) + 1
    /\ SubSeq(ORDERS', 1, Len(ORDERS)) = ORDERS
    /\ ORDERS'[Len(ORDERS')].id = id

---------------------------------------------------------------------------
(* C1: a request that passes validation is answered 200, with an order      *)
(* appended to the store, exactly when its own reservation draw was true    *)
(* and its own charge succeeded; otherwise it is answered 402 and the store *)
(* is as it was.                                                            *)

C1_OrderIffReservedAndCharged ==
    [][ \A r \in Requests :
          Answered(r) /\ PassesValidation(req'[r]) =>
            IF reserved'[r] /\ charge'[r].status = "success"
            THEN /\ res'[r].status = 200
                 /\ AppendsOrder(res'[r].body.orderId)
            ELSE /\ res'[r].status = 402
                 /\ ORDERS' = ORDERS ]_vars

\* Both cases have happened: one request confirmed, another rejected
C1_Witness ==
    \E r, q \in Requests :
        /\ pc[r] = "done" /\ PassesValidation(req[r])
        /\ reserved[r] /\ charge[r].status = "success" /\ res[r].status = 200
        /\ Len(ORDERS) = 1
        /\ pc[q] = "done" /\ PassesValidation(req[q])
        /\ ~reserved[q] /\ charge[q].status = "success" /\ res[q].status = 402

---------------------------------------------------------------------------
(* C2: a request whose cart is missing, not a list or empty, or has a line  *)
(* with a product id that is not in the catalog or with a non-positive      *)
(* quantity, is answered 400 and leaves the store as it was.                *)

C2_InvalidCartIs400 ==
    [][ \A r \in Requests :
          Answered(r) /\ (NoCart(req'[r]) \/ HasBadLine(req'[r])) =>
            /\ res'[r].status = 400
            /\ ORDERS' = ORDERS ]_vars

---------------------------------------------------------------------------
(* C3: the total of a cart that passes validation, as charged and as stored *)
(* in the order, is the sum over the lines of the catalog price of the      *)
(* line's product times the line's quantity; a price the client sent with a *)
(* line plays no part, and a product on several lines counts once per line. *)

\* The sum over the lines from line i on; a line whose quantity is not a
\* number makes it NaN
RECURSIVE CatalogSum(_, _)
CatalogSum(lines, i) ==
    IF i > Len(lines) THEN Num(0)
    ELSE LET rest == CatalogSum(lines, i + 1)
             q == lines[i].quantity
         IN  IF IsNum(q) /\ IsNum(rest)
             THEN Num(CatalogPrice(lines[i].productId) * q.v + rest.v)
             ELSE NaN

C3_TotalIsCatalogSum ==
    /\ \A r \in Requests :
          pc[r] = "charging" =>
            /\ PassesValidation(req[r])
            /\ totalMinor[r] = CatalogSum(req[r].items.v, 1)
    /\ \A i \in 1 .. Len(ORDERS) :
          ORDERS[i].totalMinor = CatalogSum(ORDERS[i].items, 1)

\* An order of two lines of the same product, one of them with a price of
\* the client's, is stored with the total of the catalog prices
C3_Witness ==
    \E i \in 1 .. Len(ORDERS) :
        /\ Len(ORDERS[i].items) = 2
        /\ ORDERS[i].items[1].productId = "syntax"
        /\ ORDERS[i].items[2].productId = "syntax"
        /\ ORDERS[i].items[1].priceMinor = Num(1)
        /\ ORDERS[i].items[1].quantity = Num(2)
        /\ ORDERS[i].items[2].quantity = Num(1)
        /\ ORDERS[i].totalMinor = Num(3 * 599)

---------------------------------------------------------------------------
(* C4: no two orders of the store have the same identifier.                 *)

C4_UniqueOrderIds ==
    \A i, j \in 1 .. Len(ORDERS) : i # j => ORDERS[i].id # ORDERS[j].id

---------------------------------------------------------------------------
(* C5: a request that names one of the three providers is charged against   *)
(* that provider, and a 200 response returns it; a request that names none, *)
(* or something else, is charged against one of the three, each of which    *)
(* can be picked; the provider a 200 response returns is always the one     *)
(* that was charged.                                                        *)

NamesProvider(body) ==
    body.paymentProvider # Undefined /\ body.paymentProvider.v \in Providers

C5_ProviderAsRequested ==
    /\ \A r \in Requests :
          pc[r] # "idle" =>
            /\ requestedProvider[r] \in Providers
            /\ NamesProvider(req[r]) => requestedProvider[r] = req[r].paymentProvider.v
            /\ charge[r] # NoCharge => charge[r].provider = requestedProvider[r]
            /\ res[r].status = 200 =>
                 /\ charge[r] # NoCharge
                 /\ res[r].body.paymentProvider = charge[r].provider
    /\ \A body \in ProviderBodies :
          ~NamesProvider(body) => RequestedProviders(body) = Providers

\* A request that named no known provider was charged against the last of the three
C5_Witness ==
    \E r \in Requests :
        /\ pc[r] = "done" /\ res[r].status = 200
        /\ req[r].paymentProvider = Str("PayPal")
        /\ res[r].body.paymentProvider = "LagPay"
        /\ charge[r].provider = "LagPay"

---------------------------------------------------------------------------
(* C6: a request during which an exception is thrown and caught by the      *)
(* handler is answered 500 with the body {error: 'Internal error'}, and has *)
(* appended no order to the store.                                          *)

C6_NoOrderOnInternalError ==
    [][ \A r \in Requests :
          Answered(r) /\ res'[r].status = 500 =>
            /\ res'[r].body = [error |-> "Internal error"]
            /\ ORDERS' = ORDERS ]_vars

---------------------------------------------------------------------------
(* C7: two requests that pass validation and are rejected get the same      *)
(* response, status and body, whichever of the reservation and the charge   *)
(* failed.                                                                  *)

RejectedAfterValidation(r) ==
    /\ pc[r] = "done" /\ PassesValidation(req[r])
    /\ ~(reserved[r] /\ charge[r].status = "success")

C7_RejectionsAlike ==
    \A r, q \in Requests :
        RejectedAfterValidation(r) /\ RejectedAfterValidation(q) => res[r] = res[q]

\* One request lost its reservation, the other its charge
C7_Witness ==
    \E r, q \in Requests :
        /\ RejectedAfterValidation(r) /\ RejectedAfterValidation(q)
        /\ ~reserved[r] /\ charge[r].status = "success"
        /\ reserved[q] /\ charge[q].status = "failed"

---------------------------------------------------------------------------
(* C8: when the failure rate resolved for the provider of a request is 1,   *)
(* the request, if it passes validation, is answered 402 and appends no     *)
(* order, whatever its reservation draw and its latency.                    *)

FailureRateOf(provider) == getProviderConfig(provider).failureRate

C8_AlwaysFailingProvider ==
    [][ \A r \in Requests :
          Answered(r) /\ PassesValidation(req'[r])
            /\ FailureRateOf(requestedProvider'[r]) = Num(100) =>
            /\ res'[r].status = 402
            /\ ORDERS' = ORDERS ]_vars

\* A request whose reservation succeeded was rejected by such a provider
C8_Witness ==
    \E r \in Requests :
        /\ pc[r] = "done" /\ PassesValidation(req[r])
        /\ FailureRateOf(requestedProvider[r]) = Num(100) /\ reserved[r]
        /\ res[r].status = 402 /\ ORDERS = << >>

---------------------------------------------------------------------------
(* C9: when the failure rate resolved for the provider of a request is 0    *)
(* and its reservation draw is true, the request, if it passes validation,  *)
(* is answered 200 and appends exactly one order; for the cart of one npe   *)
(* the order's total is 1299.                                               *)

OneNpe == << Line("npe", Num(1), Undefined) >>

C9_NeverFailingProvider ==
    [][ \A r \in Requests :
          Answered(r) /\ PassesValidation(req'[r])
            /\ FailureRateOf(requestedProvider'[r]) = Num(0) /\ reserved'[r] =>
            /\ res'[r].status = 200
            /\ AppendsOrder(res'[r].body.orderId)
            /\ req'[r].items.v = OneNpe => ORDERS'[Len(ORDERS')].totalMinor = Num(1299) ]_vars

\* The scenario has run: one npe, failure rate 0, reserved
C9_Witness ==
    \E r \in Requests :
        /\ pc[r] = "done" /\ req[r].items = Arr(OneNpe)
        /\ FailureRateOf(requestedProvider[r]) = Num(0) /\ reserved[r]
        /\ res[r].status = 200
        /\ Len(ORDERS) = 1 /\ ORDERS[1].totalMinor = Num(1299)

---------------------------------------------------------------------------
(* C10: when the resolved config of a provider has 0 <= minMs <= maxMs, the *)
(* latency drawn for a charge lies between minMs and maxMs, both included,  *)
(* and both ends can be drawn.  Math.random() takes RandSteps values here,  *)
(* so that the ends are asked of the ranges of at most RandSteps values.    *)

InOrder(cfg) ==
    /\ IsNum(cfg.minMs) /\ IsNum(cfg.maxMs)
    /\ 0 <= cfg.minMs.v /\ cfg.minMs.v <= cfg.maxMs.v

C10_LatencyWithinConfig ==
    /\ \A r \in Requests :
          pc[r] = "charging" /\ InOrder(getProviderConfig(requestedProvider[r])) =>
            /\ IsNum(latency[r])
            /\ getProviderConfig(requestedProvider[r]).minMs.v <= latency[r].v
            /\ latency[r].v <= getProviderConfig(requestedProvider[r]).maxMs.v
    /\ \A p \in Providers :
          LET cfg == getProviderConfig(p)
          IN  InOrder(cfg) /\ cfg.maxMs.v - cfg.minMs.v < RandSteps =>
                { cfg.minMs, cfg.maxMs } \subseteq DrawnLatencies(p)

\* A charge waits for the largest latency of a range of several values
C10_Witness ==
    \E r \in Requests :
        /\ pc[r] = "charging"
        /\ InOrder(getProviderConfig(requestedProvider[r]))
        /\ getProviderConfig(requestedProvider[r]).minMs.v < latency[r].v
        /\ latency[r] = getProviderConfig(requestedProvider[r]).maxMs

---------------------------------------------------------------------------
(* C11: for each provider and each of its three parameters, the value       *)
(* resolved is the override PAYMENT_<PROVIDER>_<PARAM> when it is set (to a *)
(* number) and else the built-in default: ZapPay 50/150/0.05, GlitchPay     *)
(* 200/1200/0.3, LagPay 1200/3000/0.1; resolving changes no state, and two   *)
(* resolutions under the same overrides give the same config.  The resolved *)
(* values are read off the response of GET /api/payment-config.             *)

\* The defaults as the documentation lists them, rates in hundredths
DocumentedDefault(provider, param) ==
    CASE provider = "ZapPay" /\ param = "MIN_MS"          -> 50
      [] provider = "ZapPay" /\ param = "MAX_MS"          -> 150
      [] provider = "ZapPay" /\ param = "FAILURE_RATE"    -> 5
      [] provider = "GlitchPay" /\ param = "MIN_MS"       -> 200
      [] provider = "GlitchPay" /\ param = "MAX_MS"       -> 1200
      [] provider = "GlitchPay" /\ param = "FAILURE_RATE" -> 30
      [] provider = "LagPay" /\ param = "MIN_MS"          -> 1200
      [] provider = "LagPay" /\ param = "MAX_MS"          -> 3000
      [] provider = "LagPay" /\ param = "FAILURE_RATE"    -> 10

FieldOf(param) ==
    CASE param = "MIN_MS"       -> "minMs"
      [] param = "MAX_MS"       -> "maxMs"
      [] param = "FAILURE_RATE" -> "failureRate"

C11_OverrideElseDefault ==
    [][ got'.path = "/api/payment-config" =>
          /\ \A p \in Providers, param \in Params :
                LET override == env[EnvKey(KeyBase(p), param)]
                    resolved == got'.body[p][FieldOf(param)]
                IN  /\ override = << >> => resolved = Num(DocumentedDefault(p, param))
                    /\ override # << >> /\ override[1].t = "numeral" =>
                          resolved = Num(override[1].v)
          /\ got' # got => env' = env /\ ORDERS' = ORDERS /\ pc' = pc
          /\ got.path = "/api/payment-config" => got' = got ]_vars

\* A provider has been resolved with one parameter overridden and the two
\* others at their defaults
C11_Witness ==
    /\ got.path = "/api/payment-config"
    /\ env[EnvKey("GLITCHPAY", "MIN_MS")] = << >>
    /\ env[EnvKey("GLITCHPAY", "MAX_MS")] = << Numeral(4) >>
    /\ env[EnvKey("GLITCHPAY", "FAILURE_RATE")] = << >>
    /\ got.body["GlitchPay"] = [minMs |-> Num(200), maxMs |-> Num(4), failureRate |-> Num(30)]
    /\ got.body["ZapPay"] = [minMs |-> Num(50), maxMs |-> Num(150), failureRate |-> Num(5)]

---------------------------------------------------------------------------
(* C12: under every setting of the nine overrides, the latency range and    *)
(* the failure rate that GET /api/payment-config returns for a provider are *)
(* the ones a charge against that provider works with; the endpoint leaves  *)
(* the store as it was.                                                     *)

C12_EndpointReportsEffective ==
    [][ got'.path = "/api/payment-config" =>
          /\ \A p \in Providers :
                got'.body[p] = [ minMs |-> JSONNumber(ChargeMin(p)),
                                 maxMs |-> JSONNumber(ChargeMax(p)),
                                 failureRate |-> JSONNumber(ChargeFailureRate(p)) ]
          /\ got' # got => ORDERS' = ORDERS ]_vars

---------------------------------------------------------------------------
(* C13: the store is append-only: whatever request to whatever endpoint is  *)
(* served, every order of the store stays at its position with its          *)
(* identifier, total and lines, and the store gets no shorter.              *)

C13_StoreAppendOnly ==
    [][ /\ Len(ORDERS') >= Len(ORDERS)
        /\ \A i \in 1 .. Len(ORDERS) : ORDERS'[i] = ORDERS[i] ]_vars

\* Two different orders are in the store, after a request that was refused
\* could not be there and a GET request was served
C13_Witness ==
    /\ Len(ORDERS) = 2
    /\ ORDERS[1] # ORDERS[2]
    /\ got.path = "/api/payment-config"

---------------------------------------------------------------------------
(* C14: a request that passes validation calls the payment simulator        *)
(* exactly once, whether its reservation draw was true or false and whether *)
(* the charge succeeds or fails; after a failed charge no second charge is  *)
(* attempted by the same request.                                           *)

\* How many times the step x is among the steps
Count(seq, x) == Cardinality({ i \in 1 .. Len(seq) : seq[i] = x })

C14_ChargedExactlyOnce ==
    [][ \A r \in Requests :
          /\ Answered(r) /\ PassesValidation(req'[r]) =>
                Count(steps'[r], "fakeCharge") = 1
          /\ Count(steps'[r], "fakeCharge") <= 1
          /\ charge[r].status = "failed" =>
                Count(steps'[r], "fakeCharge") = Count(steps[r], "fakeCharge") ]_vars

\* A request whose reservation failed and one whose charge failed have
\* both been answered, after one charge each
C14_Witness ==
    \E r, q \in Requests :
        /\ pc[r] = "done" /\ PassesValidation(req[r])
        /\ ~reserved[r] /\ charge[r].status = "success"
        /\ Count(steps[r], "fakeCharge") = 1
        /\ pc[q] = "done" /\ PassesValidation(req[q])
        /\ reserved[q] /\ charge[q].status = "failed"
        /\ Count(steps[q], "fakeCharge") = 1

---------------------------------------------------------------------------
(* C15: a request that is suspended in its sleep keeps no other request     *)
(* from advancing: while an earlier request sleeps, the next request can    *)
(* arrive and be refused for its cart at once, or begin a shorter sleep,    *)
(* and a later request with less time left than the earlier one, and no     *)
(* more than any other, can be answered, the earlier one still sleeping.    *)

\* Request q is the next to arrive
NextToArrive(q) == pc[q] = "idle" /\ \A p \in Requests : p < q => pc[p] # "idle"

\* A sleep shorter than t ms can be drawn
ShorterSleep(t) ==
    \E p \in Providers : \E ms \in DrawnLatencies(p) : TimeoutOf(ms) < t

C15_SleepBlocksNoOther ==
    \A r, q \in Requests :
        r < q /\ pc[r] = "charging" =>
          /\ NextToArrive(q) =>
                ENABLED ( /\ Checkout(q, FewBodies, { "none" })
                          /\ res'[q].status = 400
                          /\ pc'[r] = "charging" )
          /\ NextToArrive(q) /\ ShorterSleep(timer[r]) =>
                ENABLED ( /\ Checkout(q, FewBodies, { "none" })
                          /\ pc'[q] = "charging"
                          /\ timer'[q] < timer'[r] )
          /\ ( /\ pc[q] = "charging" /\ timer[q] < timer[r]
               /\ \A p \in Requests : pc[p] = "charging" => timer[q] <= timer[p] ) =>
                ENABLED ( /\ Settle(q, { "none" })
                          /\ res'[q].status \in { 200, 402 }
                          /\ pc'[r] = "charging" )

\* The later request, whose sleep was shorter, has its order while the
\* earlier one still sleeps
C15_Witness ==
    \E r, q \in Requests :
        /\ r < q
        /\ pc[r] = "charging" /\ pc[q] = "done"
        /\ res[q].status = 200 /\ Len(ORDERS) = 1

---------------------------------------------------------------------------
(* C20: the steps of a request run in the order validation, reservation,    *)
(* charge, decision, response, and the provider is selected in the charge:  *)
(* no provider is picked at random before the cart has passed validation.   *)

\* Every step x of the sequence comes before every step y
Before(seq, x, y) ==
    \A i, j \in 1 .. Len(seq) : seq[i] = x /\ seq[j] = y => i < j

C20_StepsInOrder ==
    \A r \in Requests :
        /\ Before(steps[r], "validate", "reserve")
        /\ Before(steps[r], "reserve", "fakeCharge")
        /\ Before(steps[r], "fakeCharge", "decide")
        /\ Before(steps[r], "decide", "respond")
        /\ Before(steps[r], "validate", "respond")
        /\ Before(steps[r], "validate", "pickPaymentProvider")
        /\ Count(steps[r], "pickPaymentProvider") > 0 => Count(steps[r], "reserve") > 0

---------------------------------------------------------------------------
(* C16: in the load simulator at most BATCH_SIZE user flows are in flight   *)
(* at any moment, and no flow of the next batch is started before every     *)
(* flow of the batch before has finished.                                   *)

C16_OneBatchAtATime ==
    /\ IsNum(BATCH_SIZE) /\ Cardinality(Unsettled) <= BATCH_SIZE.v
    /\ \A i, j \in 1 .. Len(jobs) :
          jobs[i].batch < jobs[j].batch => jobs[i].at = "fulfilled"

\* The second batch runs BATCH_SIZE flows at once
C16_Witness ==
    /\ Batch = 2 /\ BATCH_SIZE = Num(2)
    /\ Cardinality({ j \in JobsOf(2) : jobs[j].flow = "running" }) = 2

---------------------------------------------------------------------------
(* C17: whatever TOTAL_USERS and BATCH_SIZE are set to, the load simulator  *)
(* runs its batches and then ends: the loop of main is left and 'Done' is   *)
(* printed.                                                                 *)

C17_PrintsDone == <>(mainPc = "done")

---------------------------------------------------------------------------
(* C18: every flow that was started is counted exactly once, in completed   *)
(* or in errors; completed + errors is never above TOTAL_USERS and is       *)
(* TOTAL_USERS when 'Done' is printed, however the jobs of a batch          *)
(* interleave.                                                              *)

C18_EveryFlowCountedOnce ==
    /\ completed = Cardinality({ j \in 1 .. Len(jobs) : jobs[j].flow = "returned" })
    /\ errors = Cardinality({ j \in 1 .. Len(jobs) : jobs[j].flow = "threw" })
    /\ \A j \in 1 .. Len(jobs) :
          jobs[j].at \in { "close", "fulfilled" } <=> jobs[j].flow \in { "returned", "threw" }
    /\ IsNum(TOTAL_USERS) /\ completed + errors <= TOTAL_USERS.v
    /\ mainPc = "done" =>
          /\ completed + errors = TOTAL_USERS.v
          /\ \A j \in 1 .. Len(jobs) : jobs[j].flow # "running"

\* 'Done' is printed after two batches, with flows of both counts
C18_Witness ==
    /\ mainPc = "done" /\ Batch = 2
    /\ completed >= 1 /\ errors >= 1
    /\ completed + errors = MaxUsers


\* C19: the step that ends a checkout click, on an OK response, empties the
\* cart, closes the drawer and sets the order confirmation to the orderId and
\* the paymentProvider of that response; on a response that is not OK or on a
\* network failure it leaves the cart and the order confirmation as they were
\* and sets the checkout error message.
C19_ClickOutcome ==
    [][ (isCheckingOut /\ ~isCheckingOut') =>
          IF response'.ok
          THEN /\ cart' = << >>
               /\ isCartOpen' = FALSE
               /\ orderConfirmation' # Null
               /\ orderConfirmation'.orderId = response'.body.orderId
               /\ orderConfirmation'.provider = response'.body.paymentProvider
          ELSE /\ cart' = cart
               /\ orderConfirmation' = orderConfirmation
               /\ checkoutError' # Null
               /\ checkoutError' = ErrorMessage(response') ]_vars

\* A click failed with lines in the cart, after a click that was confirmed
\* with another provider than the one selected
C19_Witness ==
    /\ ~isCheckingOut
    /\ response # Null
    /\ ~response.ok
    /\ checkoutError # Null
    /\ cart # << >>
    /\ orderConfirmation # Null
    /\ orderConfirmation.provider # paymentProvider

---------------------------------------------------------------------------
(* C21: a request that fails validation is answered in the step in which it *)
(* arrives, without a reservation draw, a charge or a sleep, and the store  *)
(* is as it was; when its first line that is null or offending is an        *)
(* offending one, the answer is 400 whatever the lines after it are.        *)

\* Line i names no catalog product or has a non-positive quantity
Offending(line) ==
    line # Null /\ (line.productId \notin CatalogIds \/ NonPositive(line.quantity))

\* The first line of the cart that cannot be accepted is an offending one
RejectedAtLine(body, i) ==
    /\ ~NoCart(body)
    /\ i \in 1 .. Len(body.items.v)
    /\ Offending(body.items.v[i])
    /\ \A j \in 1 .. (i - 1) : body.items.v[j] # Null /\ ~Offending(body.items.v[j])

C21_RejectedWithoutLaterStep ==
    [][ \A r \in Requests :
          /\ Answered(r) /\ ~PassesValidation(req'[r]) =>
                /\ pc[r] = "idle"
                /\ Count(steps'[r], "reserve") = 0
                /\ Count(steps'[r], "fakeCharge") = 0
                /\ timer'[r] = 0
                /\ latency'[r] = latency[r]
                /\ charge'[r] = NoCharge
                /\ ORDERS' = ORDERS
          /\ Answered(r) /\ (\E i \in 1 .. MaxLines : RejectedAtLine(req'[r], i)) =>
                res'[r].status = 400
          /\ Answered(r) /\ res'[r].status = 400 => ~PassesValidation(req'[r]) ]_vars

\* A cart whose first line is offending and whose second is null has been
\* answered 400
C21_Witness ==
    \E r \in Requests :
        /\ pc[r] = "done"
        /\ res[r].status = 400
        /\ RejectedAtLine(req[r], 1)
        /\ Len(req[r].items.v) = 2
        /\ req[r].items.v[2] = Null
        /\ steps[r] = << "validate", "respond" >>

---------------------------------------------------------------------------
(* C22: every line of every order in the store names a catalog product and  *)
(* has a quantity that is a positive integer, and the total of every order  *)
(* is a positive integer.                                                   *)

PositiveInteger(x) == IsNum(x) /\ x.v >= 1

C22_OrdersWellFormed ==
    \A i \in 1 .. Len(ORDERS) :
        /\ \A k \in 1 .. Len(ORDERS[i].items) :
              /\ ORDERS[i].items[k] # Null
              /\ ORDERS[i].items[k].productId \in CatalogIds
              /\ PositiveInteger(ORDERS[i].items[k].quantity)
        /\ PositiveInteger(ORDERS[i].totalMinor)

---------------------------------------------------------------------------
(* C23: a charge clamps the resolved values where it uses them.  When the   *)
(* resolved maxMs is below the resolved minMs, the latency drawn is minMs,  *)
(* or 0 when minMs is below 0; a latency drawn is never below 0; with a     *)
(* resolved failure rate above 1 the charge always fails, with one below 0  *)
(* it never fails.                                                          *)

\* The config resolved for the provider of request r
ConfigOf(r) == getProviderConfig(requestedProvider[r])

\* The resolved maxMs is below the resolved minMs
MaxBelowMin(cfg) == IsNum(cfg.minMs) /\ IsNum(cfg.maxMs) /\ cfg.maxMs.v < cfg.minMs.v

C23_ClampedAtUse ==
    \A r \in Requests :
        /\ pc[r] = "charging" =>
              /\ MaxBelowMin(ConfigOf(r)) =>
                    latency[r] = (IF ConfigOf(r).minMs.v < 0 THEN Num(0)
                                  ELSE ConfigOf(r).minMs)
              /\ IsNum(latency[r]) => latency[r].v >= 0
        /\ pc[r] = "done" /\ charge[r] # NoCharge /\ IsNum(ConfigOf(r).failureRate) =>
              /\ ConfigOf(r).failureRate.v > 100 => charge[r].status = "failed"
              /\ ConfigOf(r).failureRate.v < 0 => charge[r].status = "success"

\* A charge sleeps 0 ms under a config whose maxMs is below its minMs, both
\* below 0
C23_Witness ==
    \E r \in Requests :
        /\ pc[r] = "charging"
        /\ MaxBelowMin(ConfigOf(r))
        /\ ConfigOf(r).minMs.v < 0
        /\ latency[r] = Num(0)

\* C23 as it is stated: when the resolved maxMs is below the resolved minMs,
\* the latency drawn is exactly minMs
C23_LatencyIsMinMs ==
    \A r \in Requests :
        pc[r] = "charging" /\ MaxBelowMin(ConfigOf(r)) => latency[r] = ConfigOf(r).minMs

---------------------------------------------------------------------------
(* C24: what happens to a cart that passed validation does not depend on    *)
(* the cart or its amount.  For the amounts of two requests in flight for   *)
(* the same provider, the same draw gives the same latency and the same     *)
(* charge outcome, and the status code is a function of the reservation and *)
(* the charge outcome alone; a cart that passes validation can get every    *)
(* reservation result with every latency its provider can draw, and with a  *)
(* failure rate strictly between 0 and 1 a charge whose sleep is over can   *)
(* both fail and succeed.                                                   *)

\* Request r has passed validation
Validated(r) == pc[r] \in { "charging", "done" } /\ PassesValidation(req[r])

\* The carts of FewBodies that pass validation
ValidBodies == { body \in FewBodies : PassesValidation(body) }

\* The failure rate resolved for the provider lies strictly between 0 and 1
RateInside(provider) ==
    /\ IsNum(FailureRateOf(provider))
    /\ 0 < FailureRateOf(provider).v /\ FailureRateOf(provider).v < 100

C24_OutcomeIndependentOfCart ==
    /\ \A r, q \in Pair :
          Validated(r) /\ Validated(q) /\ requestedProvider[r] = requestedProvider[q] =>
            \A u \in Rand :
                /\ fakeChargeLatency(totalMinor[r], requestedProvider[r], u)
                     = fakeChargeLatency(totalMinor[q], requestedProvider[q], u)
                /\ fakeChargeFailed(totalMinor[r], requestedProvider[r], u)
                     = fakeChargeFailed(totalMinor[q], requestedProvider[q], u)
    /\ \A r \in Pair :
          Validated(r) /\ pc[r] = "done" =>
            res[r].status = IF reserved[r] /\ charge[r].status = "success" THEN 200 ELSE 402
    /\ \A r \in Pair :
          NextToArrive(r) =>
            \A body \in ValidBodies, isReserved \in DrawnReserved :
              \A ms \in DrawnLatencies(body.paymentProvider.v) :
                ENABLED ( /\ Checkout(r, { body }, { "none" })
                          /\ reserved'[r] = isReserved
                          /\ latency'[r] = ms )
    /\ \A r \in Pair :
          pc[r] = "charging" /\ Due(r) /\ RateInside(requestedProvider[r]) =>
            \A status \in { "failed", "success" } :
                ENABLED ( Settle(r, { "none" }) /\ charge'[r].status = status )

\* Two requests with carts of different amounts, for the same provider, both
\* reserved and charged, have both been answered 200
C24_Witness ==
    \E r, q \in Pair :
        /\ Validated(r) /\ Validated(q)
        /\ pc[r] = "done" /\ pc[q] = "done"
        /\ totalMinor[r] # totalMinor[q]
        /\ requestedProvider[r] = requestedProvider[q]
        /\ reserved[r] /\ reserved[q]
        /\ charge[r].status = "success" /\ charge[q].status = "success"
        /\ res[r].status = 200 /\ res[q].status = 200

---------------------------------------------------------------------------
(* C25: however the requests interleave at the sleep of the charge, the     *)
(* step that confirms a request appends one order that carries the lines of *)
(* that request and the total computed from them, every other step leaves   *)
(* the store as it was, and the store holds as many orders as there are     *)
(* requests whose reservation and charge both succeeded.                    *)

\* The requests that have reached the confirmed decision
Confirmed ==
    { r \in Requests : /\ pc[r] = "done" /\ PassesValidation(req[r])
                       /\ reserved[r] /\ charge[r].status = "success" }

\* Request r makes its last step and has reached the confirmed decision
Confirms(r) ==
    Answered(r) /\ PassesValidation(req'[r]) /\ reserved'[r] /\ charge'[r].status = "success"

C25_NoAppendLostOrMixed ==
    [][ /\ \A r \in Requests :
              Confirms(r) =>
                /\ Len(ORDERS') = Len(ORDERS) + 1
                /\ SubSeq(ORDERS', 1, Len(ORDERS)) = ORDERS
                /\ ORDERS'[Len(ORDERS')].items = req[r].items.v
                /\ ORDERS'[Len(ORDERS')].totalMinor = CatalogSum(req[r].items.v, 1)
        /\ (\A r \in Requests : ~Confirms(r)) => ORDERS' = ORDERS
        /\ Len(ORDERS') = Cardinality(Confirmed') ]_vars

\* Two requests with different carts slept at the same time, and the one
\* that arrived later was confirmed first: each order has its own lines
C25_Witness ==
    /\ Len(ORDERS) = 2
    /\ pc[1] = "done" /\ pc[2] = "done"
    /\ req[1].items # req[2].items
    /\ ORDERS[1].items = req[2].items.v
    /\ ORDERS[2].items = req[1].items.v
    /\ ORDERS[1].totalMinor = totalMinor[2]
    /\ ORDERS[2].totalMinor = totalMinor[1]

---------------------------------------------------------------------------
(* C26: every request that is received is answered in the end, once, with   *)
(* the status 200, 400, 402 or 500: a request that is not yet answered has  *)
(* sent no response, one that is answered has sent one, and no step sends   *)
(* another response for it.                                                 *)

\* The responses request r has sent so far
Responses(r) == Count(steps[r], "respond")

C26_AnsweredOnce ==
    /\ [](\A r \in Requests :
              /\ pc[r] \in { "idle", "charging" } => Responses(r) = 0 /\ res[r] = NoResponse
              /\ pc[r] = "done" =>
                    Responses(r) = 1 /\ res[r].status \in { 200, 400, 402, 500 })
    /\ [][ \A r \in Requests :
              pc[r] = "done" => pc'[r] = "done" /\ res'[r] = res[r] ]_vars
    /\ \A r \in Pair : (pc[r] = "charging") ~> (pc[r] = "done")

\* Both requests slept at the same time and both are answered, one of them
\* with 500
C26_Witness ==
    /\ pc[1] = "done" /\ pc[2] = "done"
    /\ Count(steps[1], "fakeCharge") = 1 /\ Count(steps[2], "fakeCharge") = 1
    /\ res[1].status = 500
    /\ res[2].status \in { 200, 402 }
    /\ Responses(1) = 1 /\ Responses(2) = 1

---------------------------------------------------------------------------
(* C27: the cart of the frontend holds at most one line for a product and   *)
(* every line has a quantity of at least 1; addToCart for a product that    *)
(* has a line adds exactly 1 to the quantity of that line and leaves every  *)
(* other line as it was; updateQuantity with a quantity of 0 or less        *)
(* removes the line and leaves the others.                                  *)

\* Every line of lines but that of the product is the same in after, at the
\* same place
OthersKept(lines, after, productId) ==
    /\ Len(after) = Len(lines)
    /\ \A i \in 1 .. Len(lines) : lines[i].productId # productId => after[i] = lines[i]

C27_CartLines ==
    /\ [](/\ \A i, j \in 1 .. Len(cart) : cart[i].productId = cart[j].productId => i = j
          /\ \A i \in 1 .. Len(cart) : cart[i].quantity >= 1)
    /\ [][ \A productId \in TwoShown :
             /\ addToCart(productId) /\ FindLine(cart, productId) # 0 =>
                   /\ OthersKept(cart, cart', productId)
                   /\ cart'[FindLine(cart, productId)].productId = productId
                   /\ cart'[FindLine(cart, productId)].quantity
                        = cart[FindLine(cart, productId)].quantity + 1
             /\ MinusClick(productId) /\ cart[FindLine(cart, productId)].quantity - 1 <= 0 =>
                   /\ FindLine(cart', productId) = 0
                   /\ Len(cart') = Len(cart) - 1
                   /\ \A i \in 1 .. Len(cart) :
                         cart[i].productId # productId =>
                            \E k \in 1 .. Len(cart') : cart'[k] = cart[i] ]_vars

\* After a confirmed checkout, the cart holds two lines, the first of them
\* with a quantity above 1
C27_Witness ==
    /\ orderConfirmation # Null
    /\ Len(cart) = 2
    /\ cart[1].quantity = MaxQty
    /\ cart[2].quantity = 1

---------------------------------------------------------------------------
(* C28: when a checkout is confirmed, the total the frontend shows is the   *)
(* total of the order the server stored for the request of that click, the  *)
(* total of the lines the request carried, whatever was done to the cart    *)
(* while the request was in flight.                                         *)

\* The step delivers the response of a confirmed request to the frontend
ShowsConfirmation == isCheckingOut /\ ~isCheckingOut' /\ response'.ok

C28_ShownTotalIsStoredTotal ==
    [][ ShowsConfirmation =>
          /\ fetching.request \in Requests
          /\ Num(orderConfirmation'.total) = totalMinor[fetching.request]
          /\ \E i \in 1 .. Len(ORDERS) :
                /\ ORDERS[i].id = orderConfirmation'.orderId
                /\ ORDERS[i].items = req[fetching.request].items.v
                /\ ORDERS[i].totalMinor = Num(orderConfirmation'.total) ]_vars

\* The confirmation of an order of MaxQty pieces is shown with the total the
\* server charged for it
C28_Witness ==
    /\ orderConfirmation # Null
    /\ orderConfirmation.total = MaxQty * 1299
    /\ response # Null /\ response.ok
    /\ \E r \in Requests :
          /\ res[r].status = 200
          /\ res[r].body.orderId = orderConfirmation.orderId
          /\ totalMinor[r] = Num(MaxQty * 1299)
    /\ cart = << >>
    /\ ~isCheckingOut

---------------------------------------------------------------------------
(* C29: isCheckingOut is true exactly while the fetch of a checkout click   *)
(* has not settled; every way the fetch settles (an OK response, another    *)
(* response, a network failure) sets it to false; while it is true the      *)
(* checkout button takes no click, so that a click never starts a fetch     *)
(* while another is in flight.                                              *)

\* The step is a checkout click: a fetch is started
StartsFetch == fetching' # Null /\ fetching'.request = 0 /\ fetching' # fetching

\* The step settles the fetch in flight
SettlesFetch == fetching # Null /\ fetching' = Null

C29_OneCheckoutInFlight ==
    /\ [](/\ isCheckingOut <=> fetching # Null
          /\ isCheckingOut => ~ENABLED onCheckoutClick)
    /\ [][ /\ StartsFetch => ~isCheckingOut /\ fetching = Null /\ isCheckingOut'
           /\ SettlesFetch =>
                 /\ isCheckingOut /\ ~isCheckingOut'
                 /\ response' \in OkResponses \cup ErrorResponses \cup { FailedToFetch }
           /\ isCheckingOut' # isCheckingOut => StartsFetch \/ SettlesFetch ]_vars

\* A click is in flight with the drawer open and a line in the cart, after a
\* click whose fetch was rejected
C29_Witness ==
    /\ isCheckingOut
    /\ fetching # Null
    /\ FooterShown
    /\ response = FailedToFetch
    /\ checkoutError = Null

---------------------------------------------------------------------------
(* C30: when the jobs of a batch are over, main waits the pause exactly     *)
(* when users remain and INTER_BATCH_DELAY_MS is above 0; during a pause    *)
(* users remain and no job runs, and after it the next batch is started, so *)
(* that no pause comes after the last batch.                                *)

\* The step ends the await of the jobs of a batch, all of them fulfilled
BatchOver == mainPc = "await all" /\ mainPc' \in { "delay", "while" }

C30_PauseBetweenBatchesOnly ==
    /\ [](mainPc = "delay" =>
            /\ UsersRemain(completed, errors)
            /\ Less(Num(0), INTER_BATCH_DELAY_MS)
            /\ Unsettled = { }
            /\ Batch >= 1)
    /\ [][ /\ BatchOver =>
                (mainPc' = "delay" <=>
                    UsersRemain(completed, errors) /\ Less(Num(0), INTER_BATCH_DELAY_MS))
           /\ mainPc' = "delay" => BatchOver
           /\ mainPc = "delay" => mainPc' = "while" /\ UNCHANGED << completed, errors, jobs >>
           /\ mainPc = "while" /\ Batch >= 1 /\ UsersRemain(completed, errors) =>
                 mainPc' = "await all" /\ Batch' = Batch + 1
           /\ mainPc' = "done" => mainPc = "while" /\ ~UsersRemain(completed, errors) ]_vars

\* 'Done' is printed after three batches, with a pause set: the last batch
\* was followed by none
C30_Witness ==
    /\ mainPc = "done"
    /\ Batch = 3
    /\ INTER_BATCH_DELAY_MS = Num(10)
    /\ Num(completed + errors) = TOTAL_USERS

=============================================================================
